---- MODULE Spec2Model ----
(***************************************************************************)
(* rte-sys shim layer of rust-armadillo: the forwarding functions of       *)
(* stub.c, which make DPDK's header-inline functions and per-lcore         *)
(* variables linkable, and the constant table of consts.h.                 *)
(*                                                                         *)
(* The shim functions are translated from stub.c.  The DPDK library they   *)
(* forward to is not part of the repository; the rte_* operators below     *)
(* state its contract (per-lcore TLS variables, a mempool of mbufs, one    *)
(* RX and one TX ring of one port) and act as the environment the shim     *)
(* runs against.                                                           *)
(***************************************************************************)
EXTENDS Integers, Sequences, FiniteSets, TLC

\* ------------------------------------------------------------------ bounds
\* RTE_PKTMBUF_HEADROOM, scaled down
Headroom == 2
\* data room of one mbuf of the pool (headroom included)
BufLen == 3
\* application private area of one mbuf of the pool
PrivSize == 1
\* descriptors of the TX ring
TxRingSize == 1
\* native calls counted per shim call (the count saturates here)
MaxCalls == 2

Threads == {"A", "B"}
\* the mbufs of the pool, named by their (non-null) addresses
Mbufs == {1, 2}
\* the one mempool, the one port and its one queue
Pools == {1}
Ports == {0}
Queues == {0}

NULL == 0
UINT16_MOD == 2 ^ 16
\* A 32-bit unsigned value is the pair <<high half, low half>> of its 16-bit
\* halves (TLC's integers are 32-bit signed).
U32(hi, lo) == <<hi % UINT16_MOD, lo % UINT16_MOD>>
\* LCORE_ID_ANY is UINT32_MAX
LCORE_ID_ANY == U32(UINT16_MOD - 1, UINT16_MOD - 1)
NoMock == <<>>

Min(a, b) == IF a < b THEN a ELSE b

\* ------------------------------------------------------------------- state
VARIABLES
    per_lcore_lcore_id,  \* RTE_PER_LCORE(_lcore_id): thread -> uint32
    per_lcore_rte_errno, \* RTE_PER_LCORE(_rte_errno): thread -> int
    owner,               \* mbuf -> "pool" | "rx" | "tx" | the thread holding it
    data_off,            \* mbuf -> headroom left (rte_mbuf.data_off)
    data_len,            \* mbuf -> bytes of data (rte_mbuf.data_len)
    rx_ring,             \* received mbufs, oldest first
    last,                \* the last shim call: who, what, arguments, result
    mock,                \* history: thread -> value of its last _rte_set_mock_lcore
    recorded,            \* history: thread -> last error the runtime recorded on it
    pc,                  \* thread -> its position inside a shim call (step-wise runs)
    pending              \* thread -> the shim call it is in (step-wise runs)

nativeVars == <<per_lcore_lcore_id, per_lcore_rte_errno, owner, data_off, data_len, rx_ring>>
vars == <<per_lcore_lcore_id, per_lcore_rte_errno, owner, data_off, data_len, rx_ring,
          last, mock, recorded, pc, pending>>

\* The native state as the calling thread `t` enters a shim function: `calls`
\* counts the native functions entered during the call, `reads` collects the
\* indices of the caller's array the native side reads.
NativeState(t) ==
    [self |-> t, lcore |-> per_lcore_lcore_id, errno |-> per_lcore_rte_errno,
     owner |-> owner, off |-> data_off, len |-> data_len, rxq |-> rx_ring,
     calls |-> 0, reads |-> {}]

\* One outcome of a native call: return value, output array, state after it.
Ret(r, out, s) == [ret |-> r, out |-> out, st |-> [s EXCEPT !.calls = @ + 1]]

\* -------------------------------------------- the wrapped library (DPDK)
rte_lcore_id(s) == {Ret(s.lcore[s.self], <<>>, s)}

\* rte_errno is a macro over the per-lcore variable: reading it enters no function
rte_errno(s) == {[ret |-> <<s.errno[s.self]>>, out |-> <<>>, st |-> s]}

rte_pktmbuf_headroom(s, m) == s.off[m]

rte_pktmbuf_prepend(s, m, len) ==
    IF len > rte_pktmbuf_headroom(s, m)
    THEN {Ret(<<NULL>>, <<>>, s)}
    ELSE {Ret(<<m, (s.off[m] - len) % UINT16_MOD>>, <<>>,
              [s EXCEPT !.off[m] = (@ - len) % UINT16_MOD,
                        !.len[m] = (@ + len) % UINT16_MOD])}

rte_pktmbuf_alloc(s, mp) ==
    LET free == {m \in Mbufs : s.owner[m] = "pool"} IN
    IF free = {}
    THEN {Ret(<<NULL>>, <<>>, s)}
    ELSE {Ret(<<m>>, <<>>,
              [s EXCEPT !.owner[m] = s.self,
                        !.off[m] = Min(Headroom, BufLen),
                        !.len[m] = 0]) : m \in free}

rte_pktmbuf_free(s, m) ==
    IF m = NULL
    THEN {Ret(<<>>, <<>>, s)}
    ELSE {Ret(<<>>, <<>>, [s EXCEPT !.owner[m] = "pool"])}

rte_mempool_put_bulk(s, mp, obj_table, n) ==
    LET idx == 1..n
        put == {obj_table[i] : i \in idx \cap DOMAIN obj_table}
    IN  {Ret(<<>>, <<>>,
             [s EXCEPT !.owner = [m \in Mbufs |-> IF m \in put THEN "pool" ELSE @[m]],
                       !.reads = @ \cup idx])}

rte_eth_rx_burst(s, port_id, queue_id, nb_pkts) ==
    IF port_id \notin Ports \/ queue_id \notin Queues
    THEN {Ret(<<0>>, <<>>, s)}
    ELSE {LET got == SubSeq(s.rxq, 1, k) IN
          Ret(<<k>>, got,
              [s EXCEPT !.rxq = SubSeq(@, k + 1, Len(@)),
                        !.owner = [m \in Mbufs |->
                                     IF \E i \in 1..k : got[i] = m THEN s.self ELSE @[m]]])
          : k \in 0..Min(nb_pkts, Len(s.rxq))}

rte_eth_tx_burst(s, port_id, queue_id, tx_pkts, nb_pkts) ==
    IF port_id \notin Ports \/ queue_id \notin Queues
    THEN {Ret(<<0>>, <<>>, s)}
    ELSE LET inflight == Cardinality({m \in Mbufs : s.owner[m] = "tx"})
             room == Min(Min(nb_pkts, Len(tx_pkts)), TxRingSize - inflight)
         IN  {Ret(<<k>>, <<>>,
                  [s EXCEPT !.owner = [m \in Mbufs |->
                                         IF \E i \in 1..k : tx_pkts[i] = m THEN "tx" ELSE @[m]],
                            !.reads = @ \cup (1..k)])
              : k \in 0..room}

rte_pktmbuf_priv_size(s, mp) == {Ret(<<PrivSize>>, <<>>, s)}

rte_pktmbuf_data_room_size(s, mp) == {Ret(<<BufLen>>, <<>>, s)}

\* ------------------------------------------------------ the shim (stub.c)
\* Bug variants of the shim functions, each one plausible slip of the C code.
\* lcore_id declared uint16_t
_rte_set_mock_lcore_u16(s, lcore_id) ==
    {[ret |-> <<>>, out |-> <<>>,
      st |-> [s EXCEPT !.lcore[s.self] = U32(0, lcore_id[2])]]}

\* the id kept in a plain global instead of the per-lcore variable
_rte_set_mock_lcore_global(s, lcore_id) ==
    {[ret |-> <<>>, out |-> <<>>,
      st |-> [s EXCEPT !.lcore = [t \in Threads |-> U32(lcore_id[1], lcore_id[2])]]]}

\* the wrong per-lcore variable written
_rte_set_mock_lcore_errno(s, lcore_id) ==
    {[ret |-> <<>>, out |-> <<>>,
      st |-> [s EXCEPT !.errno[s.self] = lcore_id[2]]]}

_rte_set_mock_lcore(s, lcore_id) ==
    {[ret |-> <<>>, out |-> <<>>,
      st |-> [s EXCEPT !.lcore[s.self] = U32(lcore_id[1], lcore_id[2])]]}

_rte_lcore_id(s) == rte_lcore_id(s)

\* read and clear
_rte_errno_clearing(s) ==
    {[o EXCEPT !.st.errno[s.self] = 0] : o \in rte_errno(s)}

_rte_errno(s) == rte_errno(s)

\* a length check of the shim's own
_rte_pktmbuf_prepend_checked(s, m, len) ==
    IF len % UINT16_MOD = 0
    THEN {[ret |-> <<NULL>>, out |-> <<>>, st |-> s]}
    ELSE rte_pktmbuf_prepend(s, m, len % UINT16_MOD)

_rte_pktmbuf_prepend(s, m, len) == rte_pktmbuf_prepend(s, m, len % UINT16_MOD)

_rte_pktmbuf_alloc(s, mp) == rte_pktmbuf_alloc(s, mp)

_rte_pktmbuf_free(s, m) == rte_pktmbuf_free(s, m)

\* count off by one
_rte_mempool_put_bulk_plus1(s, mp, obj_table, n) ==
    rte_mempool_put_bulk(s, mp, obj_table, n + 1)

_rte_mempool_put_bulk(s, mp, obj_table, n) == rte_mempool_put_bulk(s, mp, obj_table, n)

\* a hard-coded burst size in place of nb_pkts
_rte_eth_rx_burst_fixed(s, port_id, queue_id, nb_pkts) ==
    rte_eth_rx_burst(s, port_id, queue_id, UINT16_MOD - 1)

_rte_eth_rx_burst(s, port_id, queue_id, nb_pkts) ==
    rte_eth_rx_burst(s, port_id, queue_id, nb_pkts % UINT16_MOD)

_rte_eth_tx_burst(s, port_id, queue_id, tx_pkts, nb_pkts) ==
    rte_eth_tx_burst(s, port_id, queue_id, tx_pkts, nb_pkts % UINT16_MOD)

_rte_pktmbuf_priv_size(s, mp) == rte_pktmbuf_priv_size(s, mp)

\* the wrong native function forwarded to
_rte_pktmbuf_data_room_size_priv(s, mp) == rte_pktmbuf_priv_size(s, mp)

_rte_pktmbuf_data_room_size(s, mp) == rte_pktmbuf_data_room_size(s, mp)

\* ----------------------------------------------------------------- inputs
Held(t) == {m \in Mbufs : owner[m] = t}

\* arrays of distinct mbufs the caller holds
Tables(S) ==
    {q \in UNION {[1..k -> S] : k \in 0..Cardinality(S)} :
        \A i, j \in DOMAIN q : i # j => q[i] # q[j]}

LcoreInputs == {U32(1, 1), LCORE_ID_ANY}
LenInputs == {0, 1, Headroom + 1, UINT16_MOD - 1}
BurstInputs == {0, 1, UINT16_MOD - 1}
ErrnoInputs == {12}

\* --------------------------------------------------------------- actions
\* The call of shim function `fn` by thread `t` with outcome `o`.  `last` keeps the
\* call: integer arguments in a1, a2 and a3 (the queue), an array argument (or the 32-bit
\* argument of _rte_set_mock_lcore) in tab, the array written for the caller in
\* out.  A call that leaves `last` as it was repeats the previous call from a
\* state in which it changes nothing.
Commit(t, fn, a1, a2, a3, tab, o) ==
    /\ per_lcore_lcore_id' = o.st.lcore
    /\ per_lcore_rte_errno' = o.st.errno
    /\ owner' = o.st.owner
    /\ data_off' = o.st.off
    /\ data_len' = o.st.len
    /\ rx_ring' = o.st.rxq
    /\ last' = [thread |-> t, fn |-> fn, a1 |-> a1, a2 |-> a2, a3 |-> a3,
                tab |-> tab, ret |-> o.ret, out |-> o.out,
                ncalls |-> o.st.calls, reads |-> o.st.reads]
    /\ mock' = IF fn = "_rte_set_mock_lcore" THEN [mock EXCEPT ![t] = tab] ELSE mock
    /\ UNCHANGED <<recorded, pc, pending>>

SetMockLcore(t) ==
    \E v \in LcoreInputs : \E o \in _rte_set_mock_lcore(NativeState(t), v) :
        Commit(t, "_rte_set_mock_lcore", 0, 0, 0, v, o)

LcoreId(t) ==
    \E o \in _rte_lcore_id(NativeState(t)) : Commit(t, "_rte_lcore_id", 0, 0, 0, <<>>, o)

Errno(t) ==
    \E o \in _rte_errno(NativeState(t)) : Commit(t, "_rte_errno", 0, 0, 0, <<>>, o)

PktmbufPrepend(t) ==
    \E m \in Held(t), len \in LenInputs :
        \E o \in _rte_pktmbuf_prepend(NativeState(t), m, len) :
            Commit(t, "_rte_pktmbuf_prepend", m, len, 0, <<>>, o)

PktmbufAlloc(t) ==
    \E mp \in Pools : \E o \in _rte_pktmbuf_alloc(NativeState(t), mp) :
        Commit(t, "_rte_pktmbuf_alloc", mp, 0, 0, <<>>, o)

PktmbufFree(t) ==
    \E m \in Held(t) \cup {NULL} : \E o \in _rte_pktmbuf_free(NativeState(t), m) :
        Commit(t, "_rte_pktmbuf_free", m, 0, 0, <<>>, o)

MempoolPutBulk(t) ==
    \E mp \in Pools, tab \in Tables(Held(t)) : \E n \in 0..Len(tab) :
        \E o \in _rte_mempool_put_bulk(NativeState(t), mp, tab, n) :
            Commit(t, "_rte_mempool_put_bulk", mp, n, 0, tab, o)

EthRxBurst(t) ==
    \E port \in Ports, queue \in Queues, nb \in BurstInputs :
        \E o \in _rte_eth_rx_burst(NativeState(t), port, queue, nb) :
            Commit(t, "_rte_eth_rx_burst", port, nb, queue, <<>>, o)

EthTxBurst(t) ==
    \E port \in Ports, queue \in Queues, tab \in Tables(Held(t)) : \E nb \in 0..Len(tab) :
        \E o \in _rte_eth_tx_burst(NativeState(t), port, queue, tab, nb) :
            Commit(t, "_rte_eth_tx_burst", port, nb, queue, tab, o)

PktmbufPrivSize(t) ==
    \E mp \in Pools : \E o \in _rte_pktmbuf_priv_size(NativeState(t), mp) :
        Commit(t, "_rte_pktmbuf_priv_size", mp, 0, 0, <<>>, o)

PktmbufDataRoomSize(t) ==
    \E mp \in Pools : \E o \in _rte_pktmbuf_data_room_size(NativeState(t), mp) :
        Commit(t, "_rte_pktmbuf_data_room_size", mp, 0, 0, <<>>, o)

\* The environment: the NIC fills the RX ring from the pool, completes
\* transmissions, and other library calls record an error on their thread.
NicReceive ==
    \E m \in Mbufs :
        /\ owner[m] = "pool"
        /\ owner' = [owner EXCEPT ![m] = "rx"]
        /\ data_off' = [data_off EXCEPT ![m] = Min(Headroom, BufLen)]
        /\ data_len' = [data_len EXCEPT ![m] = 0]
        /\ rx_ring' = Append(rx_ring, m)
        /\ UNCHANGED <<per_lcore_lcore_id, per_lcore_rte_errno, last, mock, recorded,
                       pc, pending>>

NicTransmitDone ==
    \E m \in Mbufs :
        /\ owner[m] = "tx"
        /\ owner' = [owner EXCEPT ![m] = "pool"]
        /\ UNCHANGED <<per_lcore_lcore_id, per_lcore_rte_errno, data_off, data_len,
                       rx_ring, last, mock, recorded, pc, pending>>

NativeRecordError(t) ==
    \E e \in ErrnoInputs :
        /\ per_lcore_rte_errno' = [per_lcore_rte_errno EXCEPT ![t] = e]
        /\ recorded' = [recorded EXCEPT ![t] = e]
        /\ UNCHANGED <<per_lcore_lcore_id, owner, data_off, data_len, rx_ring, last, mock,
                       pc, pending>>

\* no call in progress
NoCall == [fn |-> "none", a1 |-> 0, a2 |-> 0, a3 |-> 0, tab |-> <<>>, ret |-> <<>>,
           ncalls |-> 0]

\* Thread A is the main lcore (id 0); thread B was never registered.
Init ==
    /\ per_lcore_lcore_id = [t \in Threads |-> IF t = "A" THEN U32(0, 0) ELSE LCORE_ID_ANY]
    /\ per_lcore_rte_errno = [t \in Threads |-> 0]
    /\ owner = [m \in Mbufs |-> "pool"]
    /\ data_off = [m \in Mbufs |-> Min(Headroom, BufLen)]
    /\ data_len = [m \in Mbufs |-> 0]
    /\ rx_ring = <<>>
    /\ last = [thread |-> "A", fn |-> "none", a1 |-> 0, a2 |-> 0, a3 |-> 0, tab |-> <<>>,
               ret |-> <<>>, out |-> <<>>, ncalls |-> 0, reads |-> {}]
    /\ mock = [t \in Threads |-> NoMock]
    /\ recorded = [t \in Threads |-> 0]
    /\ pc = [t \in Threads |-> "idle"]
    /\ pending = [t \in Threads |-> NoCall]

Next ==
    \/ \E t \in Threads : SetMockLcore(t)
    \/ \E t \in Threads : LcoreId(t)
    \/ \E t \in Threads : Errno(t)
    \/ \E t \in Threads : PktmbufPrepend(t)
    \/ \E t \in Threads : PktmbufAlloc(t)
    \/ \E t \in Threads : PktmbufFree(t)
    \/ \E t \in Threads : MempoolPutBulk(t)
    \/ \E t \in Threads : EthRxBurst(t)
    \/ \E t \in Threads : EthTxBurst(t)
    \/ \E t \in Threads : PktmbufPrivSize(t)
    \/ \E t \in Threads : PktmbufDataRoomSize(t)
    \/ NicReceive
    \/ NicTransmitDone
    \/ \E t \in Threads : NativeRecordError(t)

Spec == Init /\ [][Next]_vars

\* ------------------------------------------------- the constants (consts.h)
\* A flag value is the ascending tuple of the bit positions set in it.
RTE_BIT64(n) == <<n>>

\* value converted to an unsigned integer of `width` bits
ToUint(value, width) == SelectSeq(value, LAMBDA b : b < width)

\* consts.h: every exported constant, its declared width, its initialiser
ExportedConsts ==
    {[name |-> "_RTE_ETH_RX_OFFLOAD_VLAN_STRIP", width |-> 64, macro |-> "RTE_ETH_RX_OFFLOAD_VLAN_STRIP"],
     [name |-> "_RTE_ETH_RX_OFFLOAD_IPV4_CKSUM", width |-> 64, macro |-> "RTE_ETH_RX_OFFLOAD_IPV4_CKSUM"],
     [name |-> "_RTE_ETH_RX_OFFLOAD_UDP_CKSUM", width |-> 64, macro |-> "RTE_ETH_RX_OFFLOAD_UDP_CKSUM"],
     [name |-> "_RTE_ETH_RX_OFFLOAD_TCP_CKSUM", width |-> 64, macro |-> "RTE_ETH_RX_OFFLOAD_TCP_CKSUM"],
     [name |-> "_RTE_ETH_RX_OFFLOAD_TCP_LRO", width |-> 64, macro |-> "RTE_ETH_RX_OFFLOAD_TCP_LRO"],
     [name |-> "_RTE_ETH_RX_OFFLOAD_QINQ_STRIP", width |-> 64, macro |-> "RTE_ETH_RX_OFFLOAD_QINQ_STRIP"],
     [name |-> "_RTE_ETH_RX_OFFLOAD_OUTER_IPV4_CKSUM", width |-> 64, macro |-> "RTE_ETH_RX_OFFLOAD_OUTER_IPV4_CKSUM"],
     [name |-> "_RTE_ETH_RX_OFFLOAD_MACSEC_STRIP", width |-> 64, macro |-> "RTE_ETH_RX_OFFLOAD_MACSEC_STRIP"],
     [name |-> "_RTE_ETH_RX_OFFLOAD_VLAN_FILTER", width |-> 64, macro |-> "RTE_ETH_RX_OFFLOAD_VLAN_FILTER"],
     [name |-> "_RTE_ETH_RX_OFFLOAD_VLAN_EXTEND", width |-> 64, macro |-> "RTE_ETH_RX_OFFLOAD_VLAN_EXTEND"],
     [name |-> "_RTE_ETH_RX_OFFLOAD_SCATTER", width |-> 64, macro |-> "RTE_ETH_RX_OFFLOAD_SCATTER"],
     [name |-> "_RTE_ETH_RX_OFFLOAD_TIMESTAMP", width |-> 64, macro |-> "RTE_ETH_RX_OFFLOAD_TIMESTAMP"],
     [name |-> "_RTE_ETH_RX_OFFLOAD_SECURITY", width |-> 64, macro |-> "RTE_ETH_RX_OFFLOAD_SECURITY"],
     [name |-> "_RTE_ETH_RX_OFFLOAD_KEEP_CRC", width |-> 64, macro |-> "RTE_ETH_RX_OFFLOAD_KEEP_CRC"],
     [name |-> "_RTE_ETH_RX_OFFLOAD_SCTP_CKSUM", width |-> 64, macro |-> "RTE_ETH_RX_OFFLOAD_SCTP_CKSUM"],
     [name |-> "_RTE_ETH_RX_OFFLOAD_OUTER_UDP_CKSUM", width |-> 64, macro |-> "RTE_ETH_RX_OFFLOAD_OUTER_UDP_CKSUM"],
     [name |-> "_RTE_ETH_RX_OFFLOAD_RSS_HASH", width |-> 64, macro |-> "RTE_ETH_RX_OFFLOAD_RSS_HASH"],
     [name |-> "_RTE_ETH_TX_OFFLOAD_VLAN_INSERT", width |-> 64, macro |-> "RTE_ETH_TX_OFFLOAD_VLAN_INSERT"],
     [name |-> "_RTE_ETH_TX_OFFLOAD_IPV4_CKSUM", width |-> 64, macro |-> "RTE_ETH_TX_OFFLOAD_IPV4_CKSUM"],
     [name |-> "_RTE_ETH_TX_OFFLOAD_UDP_CKSUM", width |-> 64, macro |-> "RTE_ETH_TX_OFFLOAD_UDP_CKSUM"],
     [name |-> "_RTE_ETH_TX_OFFLOAD_TCP_CKSUM", width |-> 64, macro |-> "RTE_ETH_TX_OFFLOAD_TCP_CKSUM"],
     [name |-> "_RTE_ETH_TX_OFFLOAD_SCTP_CKSUM", width |-> 64, macro |-> "RTE_ETH_TX_OFFLOAD_SCTP_CKSUM"],
     [name |-> "_RTE_ETH_TX_OFFLOAD_TCP_TSO", width |-> 64, macro |-> "RTE_ETH_TX_OFFLOAD_TCP_TSO"],
     [name |-> "_RTE_ETH_TX_OFFLOAD_UDP_TSO", width |-> 64, macro |-> "RTE_ETH_TX_OFFLOAD_UDP_TSO"],
     [name |-> "_RTE_ETH_TX_OFFLOAD_OUTER_IPV4_CKSUM", width |-> 64, macro |-> "RTE_ETH_TX_OFFLOAD_OUTER_IPV4_CKSUM"],
     [name |-> "_RTE_ETH_TX_OFFLOAD_QINQ_INSERT", width |-> 64, macro |-> "RTE_ETH_TX_OFFLOAD_QINQ_INSERT"],
     [name |-> "_RTE_ETH_TX_OFFLOAD_VXLAN_TNL_TSO", width |-> 64, macro |-> "RTE_ETH_TX_OFFLOAD_VXLAN_TNL_TSO"],
     [name |-> "_RTE_ETH_TX_OFFLOAD_GRE_TNL_TSO", width |-> 64, macro |-> "RTE_ETH_TX_OFFLOAD_GRE_TNL_TSO"],
     [name |-> "_RTE_ETH_TX_OFFLOAD_IPIP_TNL_TSO", width |-> 64, macro |-> "RTE_ETH_TX_OFFLOAD_IPIP_TNL_TSO"],
     [name |-> "_RTE_ETH_TX_OFFLOAD_GENEVE_TNL_TSO", width |-> 64, macro |-> "RTE_ETH_TX_OFFLOAD_GENEVE_TNL_TSO"],
     [name |-> "_RTE_ETH_TX_OFFLOAD_MACSEC_INSERT", width |-> 64, macro |-> "RTE_ETH_TX_OFFLOAD_MACSEC_INSERT"],
     [name |-> "_RTE_ETH_TX_OFFLOAD_MT_LOCKFREE", width |-> 64, macro |-> "RTE_ETH_TX_OFFLOAD_MT_LOCKFREE"],
     [name |-> "_RTE_ETH_TX_OFFLOAD_MULTI_SEGS", width |-> 64, macro |-> "RTE_ETH_TX_OFFLOAD_MULTI_SEGS"],
     [name |-> "_RTE_ETH_TX_OFFLOAD_MBUF_FAST_FREE", width |-> 64, macro |-> "RTE_ETH_TX_OFFLOAD_MBUF_FAST_FREE"],
     [name |-> "_RTE_ETH_TX_OFFLOAD_SECURITY", width |-> 64, macro |-> "RTE_ETH_TX_OFFLOAD_SECURITY"],
     [name |-> "_RTE_ETH_TX_OFFLOAD_UDP_TNL_TSO", width |-> 64, macro |-> "RTE_ETH_TX_OFFLOAD_UDP_TNL_TSO"],
     [name |-> "_RTE_ETH_TX_OFFLOAD_IP_TNL_TSO", width |-> 64, macro |-> "RTE_ETH_TX_OFFLOAD_IP_TNL_TSO"],
     [name |-> "_RTE_ETH_TX_OFFLOAD_OUTER_UDP_CKSUM", width |-> 64, macro |-> "RTE_ETH_TX_OFFLOAD_OUTER_UDP_CKSUM"],
     [name |-> "_RTE_ETH_TX_OFFLOAD_SEND_ON_TIMESTAMP", width |-> 64, macro |-> "RTE_ETH_TX_OFFLOAD_SEND_ON_TIMESTAMP"],
     [name |-> "_RTE_ETH_MQ_RX_RSS_FLAG", width |-> 32, macro |-> "RTE_ETH_MQ_RX_RSS_FLAG"],
     [name |-> "_RTE_ETH_MQ_RX_DCB_FLAG", width |-> 32, macro |-> "RTE_ETH_MQ_RX_DCB_FLAG"],
     [name |-> "_RTE_ETH_MQ_RX_VMDQ_FLAG", width |-> 32, macro |-> "RTE_ETH_MQ_RX_VMDQ_FLAG"],
     [name |-> "_RTE_ETH_RSS_IPV4", width |-> 32, macro |-> "RTE_ETH_RSS_IPV4"],
     [name |-> "_RTE_ETH_RSS_FRAG_IPV4", width |-> 32, macro |-> "RTE_ETH_RSS_FRAG_IPV4"],
     [name |-> "_RTE_ETH_RSS_NONFRAG_IPV4_TCP", width |-> 32, macro |-> "RTE_ETH_RSS_NONFRAG_IPV4_TCP"],
     [name |-> "_RTE_ETH_RSS_NONFRAG_IPV4_UDP", width |-> 32, macro |-> "RTE_ETH_RSS_NONFRAG_IPV4_UDP"],
     [name |-> "_RTE_ETH_RSS_NONFRAG_IPV4_SCTP", width |-> 32, macro |-> "RTE_ETH_RSS_NONFRAG_IPV4_SCTP"],
     [name |-> "_RTE_ETH_RSS_NONFRAG_IPV4_OTHER", width |-> 32, macro |-> "RTE_ETH_RSS_NONFRAG_IPV4_OTHER"],
     [name |-> "_RTE_ETH_RSS_IPV6", width |-> 32, macro |-> "RTE_ETH_RSS_IPV6"],
     [name |-> "_RTE_ETH_RSS_FRAG_IPV6", width |-> 32, macro |-> "RTE_ETH_RSS_FRAG_IPV6"],
     [name |-> "_RTE_ETH_RSS_NONFRAG_IPV6_TCP", width |-> 32, macro |-> "RTE_ETH_RSS_NONFRAG_IPV6_TCP"],
     [name |-> "_RTE_ETH_RSS_NONFRAG_IPV6_UDP", width |-> 32, macro |-> "RTE_ETH_RSS_NONFRAG_IPV6_UDP"],
     [name |-> "_RTE_ETH_RSS_NONFRAG_IPV6_SCTP", width |-> 32, macro |-> "RTE_ETH_RSS_NONFRAG_IPV6_SCTP"],
     [name |-> "_RTE_ETH_RSS_NONFRAG_IPV6_OTHER", width |-> 32, macro |-> "RTE_ETH_RSS_NONFRAG_IPV6_OTHER"],
     [name |-> "_RTE_ETH_RSS_L2_PAYLOAD", width |-> 32, macro |-> "RTE_ETH_RSS_L2_PAYLOAD"],
     [name |-> "_RTE_ETH_RSS_IPV6_EX", width |-> 32, macro |-> "RTE_ETH_RSS_IPV6_EX"],
     [name |-> "_RTE_ETH_RSS_IPV6_TCP_EX", width |-> 32, macro |-> "RTE_ETH_RSS_IPV6_TCP_EX"],
     [name |-> "_RTE_ETH_RSS_IPV6_UDP_EX", width |-> 32, macro |-> "RTE_ETH_RSS_IPV6_UDP_EX"],
     [name |-> "_RTE_ETH_RSS_PORT", width |-> 32, macro |-> "RTE_ETH_RSS_PORT"],
     [name |-> "_RTE_ETH_RSS_VXLAN", width |-> 32, macro |-> "RTE_ETH_RSS_VXLAN"],
     [name |-> "_RTE_ETH_RSS_GENEVE", width |-> 32, macro |-> "RTE_ETH_RSS_GENEVE"],
     [name |-> "_RTE_ETH_RSS_NVGRE", width |-> 32, macro |-> "RTE_ETH_RSS_NVGRE"],
     [name |-> "_RTE_ETH_RSS_GTPU", width |-> 32, macro |-> "RTE_ETH_RSS_GTPU"],
     [name |-> "_RTE_ETH_RSS_ETH", width |-> 32, macro |-> "RTE_ETH_RSS_ETH"],
     [name |-> "_RTE_ETH_RSS_S_VLAN", width |-> 32, macro |-> "RTE_ETH_RSS_S_VLAN"],
     [name |-> "_RTE_ETH_RSS_C_VLAN", width |-> 32, macro |-> "RTE_ETH_RSS_C_VLAN"],
     [name |-> "_RTE_ETH_RSS_ESP", width |-> 32, macro |-> "RTE_ETH_RSS_ESP"],
     [name |-> "_RTE_ETH_RSS_AH", width |-> 32, macro |-> "RTE_ETH_RSS_AH"],
     [name |-> "_RTE_ETH_RSS_L2TPV3", width |-> 32, macro |-> "RTE_ETH_RSS_L2TPV3"],
     [name |-> "_RTE_ETH_RSS_PFCP", width |-> 32, macro |-> "RTE_ETH_RSS_PFCP"],
     [name |-> "_RTE_ETH_RSS_PPPOE", width |-> 32, macro |-> "RTE_ETH_RSS_PPPOE"],
     [name |-> "_RTE_ETH_RSS_ECPRI", width |-> 32, macro |-> "RTE_ETH_RSS_ECPRI"],
     [name |-> "_RTE_ETH_RSS_MPLS", width |-> 32, macro |-> "RTE_ETH_RSS_MPLS"]}

\* rte_ethdev.h of DPDK: the bit each macro sets
NativeMacros ==
    {[macro |-> "RTE_ETH_RX_OFFLOAD_VLAN_STRIP", bit |-> 0],
     [macro |-> "RTE_ETH_RX_OFFLOAD_IPV4_CKSUM", bit |-> 1],
     [macro |-> "RTE_ETH_RX_OFFLOAD_UDP_CKSUM", bit |-> 2],
     [macro |-> "RTE_ETH_RX_OFFLOAD_TCP_CKSUM", bit |-> 3],
     [macro |-> "RTE_ETH_RX_OFFLOAD_TCP_LRO", bit |-> 4],
     [macro |-> "RTE_ETH_RX_OFFLOAD_QINQ_STRIP", bit |-> 5],
     [macro |-> "RTE_ETH_RX_OFFLOAD_OUTER_IPV4_CKSUM", bit |-> 6],
     [macro |-> "RTE_ETH_RX_OFFLOAD_MACSEC_STRIP", bit |-> 7],
     [macro |-> "RTE_ETH_RX_OFFLOAD_VLAN_FILTER", bit |-> 9],
     [macro |-> "RTE_ETH_RX_OFFLOAD_VLAN_EXTEND", bit |-> 10],
     [macro |-> "RTE_ETH_RX_OFFLOAD_SCATTER", bit |-> 13],
     [macro |-> "RTE_ETH_RX_OFFLOAD_TIMESTAMP", bit |-> 14],
     [macro |-> "RTE_ETH_RX_OFFLOAD_SECURITY", bit |-> 15],
     [macro |-> "RTE_ETH_RX_OFFLOAD_KEEP_CRC", bit |-> 16],
     [macro |-> "RTE_ETH_RX_OFFLOAD_SCTP_CKSUM", bit |-> 17],
     [macro |-> "RTE_ETH_RX_OFFLOAD_OUTER_UDP_CKSUM", bit |-> 18],
     [macro |-> "RTE_ETH_RX_OFFLOAD_RSS_HASH", bit |-> 19],
     [macro |-> "RTE_ETH_TX_OFFLOAD_VLAN_INSERT", bit |-> 0],
     [macro |-> "RTE_ETH_TX_OFFLOAD_IPV4_CKSUM", bit |-> 1],
     [macro |-> "RTE_ETH_TX_OFFLOAD_UDP_CKSUM", bit |-> 2],
     [macro |-> "RTE_ETH_TX_OFFLOAD_TCP_CKSUM", bit |-> 3],
     [macro |-> "RTE_ETH_TX_OFFLOAD_SCTP_CKSUM", bit |-> 4],
     [macro |-> "RTE_ETH_TX_OFFLOAD_TCP_TSO", bit |-> 5],
     [macro |-> "RTE_ETH_TX_OFFLOAD_UDP_TSO", bit |-> 6],
     [macro |-> "RTE_ETH_TX_OFFLOAD_OUTER_IPV4_CKSUM", bit |-> 7],
     [macro |-> "RTE_ETH_TX_OFFLOAD_QINQ_INSERT", bit |-> 8],
     [macro |-> "RTE_ETH_TX_OFFLOAD_VXLAN_TNL_TSO", bit |-> 9],
     [macro |-> "RTE_ETH_TX_OFFLOAD_GRE_TNL_TSO", bit |-> 10],
     [macro |-> "RTE_ETH_TX_OFFLOAD_IPIP_TNL_TSO", bit |-> 11],
     [macro |-> "RTE_ETH_TX_OFFLOAD_GENEVE_TNL_TSO", bit |-> 12],
     [macro |-> "RTE_ETH_TX_OFFLOAD_MACSEC_INSERT", bit |-> 13],
     [macro |-> "RTE_ETH_TX_OFFLOAD_MT_LOCKFREE", bit |-> 14],
     [macro |-> "RTE_ETH_TX_OFFLOAD_MULTI_SEGS", bit |-> 15],
     [macro |-> "RTE_ETH_TX_OFFLOAD_MBUF_FAST_FREE", bit |-> 16],
     [macro |-> "RTE_ETH_TX_OFFLOAD_SECURITY", bit |-> 17],
     [macro |-> "RTE_ETH_TX_OFFLOAD_UDP_TNL_TSO", bit |-> 18],
     [macro |-> "RTE_ETH_TX_OFFLOAD_IP_TNL_TSO", bit |-> 19],
     [macro |-> "RTE_ETH_TX_OFFLOAD_OUTER_UDP_CKSUM", bit |-> 20],
     [macro |-> "RTE_ETH_TX_OFFLOAD_SEND_ON_TIMESTAMP", bit |-> 21],
     [macro |-> "RTE_ETH_MQ_RX_RSS_FLAG", bit |-> 0],
     [macro |-> "RTE_ETH_MQ_RX_DCB_FLAG", bit |-> 1],
     [macro |-> "RTE_ETH_MQ_RX_VMDQ_FLAG", bit |-> 2],
     [macro |-> "RTE_ETH_RSS_IPV4", bit |-> 2],
     [macro |-> "RTE_ETH_RSS_FRAG_IPV4", bit |-> 3],
     [macro |-> "RTE_ETH_RSS_NONFRAG_IPV4_TCP", bit |-> 4],
     [macro |-> "RTE_ETH_RSS_NONFRAG_IPV4_UDP", bit |-> 5],
     [macro |-> "RTE_ETH_RSS_NONFRAG_IPV4_SCTP", bit |-> 6],
     [macro |-> "RTE_ETH_RSS_NONFRAG_IPV4_OTHER", bit |-> 7],
     [macro |-> "RTE_ETH_RSS_IPV6", bit |-> 8],
     [macro |-> "RTE_ETH_RSS_FRAG_IPV6", bit |-> 9],
     [macro |-> "RTE_ETH_RSS_NONFRAG_IPV6_TCP", bit |-> 10],
     [macro |-> "RTE_ETH_RSS_NONFRAG_IPV6_UDP", bit |-> 11],
     [macro |-> "RTE_ETH_RSS_NONFRAG_IPV6_SCTP", bit |-> 12],
     [macro |-> "RTE_ETH_RSS_NONFRAG_IPV6_OTHER", bit |-> 13],
     [macro |-> "RTE_ETH_RSS_L2_PAYLOAD", bit |-> 14],
     [macro |-> "RTE_ETH_RSS_IPV6_EX", bit |-> 15],
     [macro |-> "RTE_ETH_RSS_IPV6_TCP_EX", bit |-> 16],
     [macro |-> "RTE_ETH_RSS_IPV6_UDP_EX", bit |-> 17],
     [macro |-> "RTE_ETH_RSS_PORT", bit |-> 18],
     [macro |-> "RTE_ETH_RSS_VXLAN", bit |-> 19],
     [macro |-> "RTE_ETH_RSS_GENEVE", bit |-> 20],
     [macro |-> "RTE_ETH_RSS_NVGRE", bit |-> 21],
     [macro |-> "RTE_ETH_RSS_GTPU", bit |-> 23],
     [macro |-> "RTE_ETH_RSS_ETH", bit |-> 24],
     [macro |-> "RTE_ETH_RSS_S_VLAN", bit |-> 25],
     [macro |-> "RTE_ETH_RSS_C_VLAN", bit |-> 26],
     [macro |-> "RTE_ETH_RSS_ESP", bit |-> 27],
     [macro |-> "RTE_ETH_RSS_AH", bit |-> 28],
     [macro |-> "RTE_ETH_RSS_L2TPV3", bit |-> 29],
     [macro |-> "RTE_ETH_RSS_PFCP", bit |-> 30],
     [macro |-> "RTE_ETH_RSS_PPPOE", bit |-> 31],
     [macro |-> "RTE_ETH_RSS_ECPRI", bit |-> 32],
     [macro |-> "RTE_ETH_RSS_MPLS", bit |-> 33]}

MacroValue(macro) == RTE_BIT64((CHOOSE r \in NativeMacros : r.macro = macro).bit)

Exported(name) ==
    LET c == CHOOSE r \in ExportedConsts : r.name = name
    IN  ToUint(MacroValue(c.macro), c.width)

ConstNames == {c.name : c \in ExportedConsts}

\* A thread loads an exported constant.
ReadConst(t) ==
    \E name \in ConstNames :
        /\ last' = [thread |-> t, fn |-> name, a1 |-> 0, a2 |-> 0, a3 |-> 0, tab |-> <<>>,
                    ret |-> Exported(name), out |-> <<>>, ncalls |-> 0, reads |-> {}]
        /\ UNCHANGED <<per_lcore_lcore_id, per_lcore_rte_errno, owner, data_off, data_len,
                       rx_ring, mock, recorded, pc, pending>>

NextConst == \E t \in Threads : ReadConst(t)

ConstSpec == Init /\ [][NextConst]_vars

\* ------------------------------------------------------- step-wise calls
\* The same shim functions with the call taken apart: the caller enters the
\* shim (CallShim), the body issues its native call or, where it has none,
\* accesses the per-lcore variable itself (ShimBody), the native function runs
\* and returns (NativeStep), the shim returns (ShimReturn).
Shim(s, c) ==
    CASE c.fn = "_rte_set_mock_lcore" -> _rte_set_mock_lcore(s, c.tab)
      [] c.fn = "_rte_lcore_id" -> _rte_lcore_id(s)
      [] c.fn = "_rte_errno" -> _rte_errno(s)
      [] c.fn = "_rte_pktmbuf_prepend" -> _rte_pktmbuf_prepend(s, c.a1, c.a2)
      [] c.fn = "_rte_pktmbuf_alloc" -> _rte_pktmbuf_alloc(s, c.a1)
      [] c.fn = "_rte_pktmbuf_free" -> _rte_pktmbuf_free(s, c.a1)
      [] c.fn = "_rte_mempool_put_bulk" -> _rte_mempool_put_bulk(s, c.a1, c.tab, c.a2)
      [] c.fn = "_rte_eth_rx_burst" -> _rte_eth_rx_burst(s, c.a1, c.a3, c.a2)
      [] c.fn = "_rte_eth_tx_burst" -> _rte_eth_tx_burst(s, c.a1, c.a3, c.tab, c.a2)
      [] c.fn = "_rte_pktmbuf_priv_size" -> _rte_pktmbuf_priv_size(s, c.a1)
      [] c.fn = "_rte_pktmbuf_data_room_size" -> _rte_pktmbuf_data_room_size(s, c.a1)

\* the bodies that contain a call: all but the two that access a per-lcore
\* variable directly (stub.c:8, stub.c:18)
CallsNative(fn) == fn \notin {"_rte_set_mock_lcore", "_rte_errno"}

\* Bug variant: the burst is asked for again while it comes back short.
AfterNative_retry(c, ret) ==
    IF c.fn = "_rte_eth_rx_burst" /\ ret[1] < c.a2 THEN "body" ELSE "return"

\* where the body goes once its native call has returned `ret`: every body is
\* `return native(...);`
AfterNative(c, ret) == "return"

Call(fn, a1, a2, a3, tab) ==
    [fn |-> fn, a1 |-> a1, a2 |-> a2, a3 |-> a3, tab |-> tab, ret |-> <<>>, ncalls |-> 0]

StepLcoreInputs == {LCORE_ID_ANY}
StepLenInputs == {0, Headroom + 1}
StepBurstInputs == {2}

\* the calls thread t can make with valid arguments
StepCalls(t) ==
    {Call("_rte_set_mock_lcore", 0, 0, 0, v) : v \in StepLcoreInputs}
    \cup {Call(fn, 0, 0, 0, <<>>) : fn \in {"_rte_lcore_id", "_rte_errno"}}
    \cup {Call("_rte_pktmbuf_prepend", m, len, 0, <<>>) : m \in Held(t), len \in StepLenInputs}
    \cup {Call(fn, mp, 0, 0, <<>>) :
            fn \in {"_rte_pktmbuf_alloc", "_rte_pktmbuf_priv_size",
                    "_rte_pktmbuf_data_room_size"}, mp \in Pools}
    \cup {Call("_rte_pktmbuf_free", m, 0, 0, <<>>) : m \in Held(t) \cup {NULL}}
    \cup {Call("_rte_mempool_put_bulk", 1, Len(tab), 0, tab) : tab \in Tables(Held(t))}
    \cup {Call("_rte_eth_rx_burst", port, nb, queue, <<>>) :
            port \in Ports, nb \in StepBurstInputs, queue \in Queues}
    \cup {Call("_rte_eth_tx_burst", 0, Len(tab), 0, tab) : tab \in Tables(Held(t))}

CallShim(t) ==
    /\ pc[t] = "idle"
    /\ \E c \in StepCalls(t) : pending' = [pending EXCEPT ![t] = c]
    /\ pc' = [pc EXCEPT ![t] = "body"]
    /\ UNCHANGED <<per_lcore_lcore_id, per_lcore_rte_errno, owner, data_off, data_len,
                   rx_ring, last, mock, recorded>>

\* the effect of outcome `o` of thread t's pending call, which goes on at `to`
Effect(t, o, to) ==
    /\ per_lcore_lcore_id' = o.st.lcore
    /\ per_lcore_rte_errno' = o.st.errno
    /\ owner' = o.st.owner
    /\ data_off' = o.st.off
    /\ data_len' = o.st.len
    /\ rx_ring' = o.st.rxq
    /\ pending' = [pending EXCEPT ![t].ret = o.ret,
                                  ![t].ncalls = Min(@ + o.st.calls, MaxCalls)]
    /\ pc' = [pc EXCEPT ![t] = to]
    /\ UNCHANGED <<last, mock, recorded>>

ShimBody(t) ==
    /\ pc[t] = "body"
    /\ IF CallsNative(pending[t].fn)
       THEN /\ pc' = [pc EXCEPT ![t] = "native"]
            /\ UNCHANGED <<per_lcore_lcore_id, per_lcore_rte_errno, owner, data_off,
                           data_len, rx_ring, last, mock, recorded, pending>>
       ELSE \E o \in Shim(NativeState(t), pending[t]) : Effect(t, o, "return")

NativeStep(t) ==
    /\ pc[t] = "native"
    /\ \E o \in Shim(NativeState(t), pending[t]) :
          Effect(t, o, AfterNative(pending[t], o.ret))

ShimReturn(t) ==
    /\ pc[t] = "return"
    /\ pc' = [pc EXCEPT ![t] = "idle"]
    /\ pending' = [pending EXCEPT ![t] = NoCall]
    /\ UNCHANGED <<per_lcore_lcore_id, per_lcore_rte_errno, owner, data_off, data_len,
                   rx_ring, last, mock, recorded>>

ThreadStep(t) == ShimBody(t) \/ NativeStep(t) \/ ShimReturn(t)

StepNext ==
    \/ \E t \in Threads : CallShim(t)
    \/ \E t \in Threads : ShimBody(t)
    \/ \E t \in Threads : NativeStep(t)
    \/ \E t \in Threads : ShimReturn(t)
    \/ NicReceive
    \/ NicTransmitDone

\* A thread inside a shim call keeps running, and the native function it has
\* entered returns.
StepSpec == Init /\ [][StepNext]_vars /\ \A t \in Threads : WF_vars(ThreadStep(t))

\* ------------------------------------------------------------ properties
Forwarders ==
    {"_rte_lcore_id", "_rte_errno", "_rte_pktmbuf_prepend", "_rte_pktmbuf_alloc",
     "_rte_pktmbuf_free", "_rte_mempool_put_bulk", "_rte_eth_rx_burst",
     "_rte_eth_tx_burst", "_rte_pktmbuf_priv_size", "_rte_pktmbuf_data_room_size"}

\* what _rte_lcore_id() would return on thread t in the current state
ObservedLcore(t) == (CHOOSE o \in _rte_lcore_id(NativeState(t)) : TRUE).ret

\* the native function a forwarder wraps, applied to the caller's arguments in
\* the caller's order
Wrapped(s, c) ==
    CASE c.fn = "_rte_lcore_id" -> rte_lcore_id(s)
      [] c.fn = "_rte_errno" -> rte_errno(s)
      [] c.fn = "_rte_pktmbuf_prepend" -> rte_pktmbuf_prepend(s, c.a1, c.a2)
      [] c.fn = "_rte_pktmbuf_alloc" -> rte_pktmbuf_alloc(s, c.a1)
      [] c.fn = "_rte_pktmbuf_free" -> rte_pktmbuf_free(s, c.a1)
      [] c.fn = "_rte_mempool_put_bulk" -> rte_mempool_put_bulk(s, c.a1, c.tab, c.a2)
      [] c.fn = "_rte_eth_rx_burst" -> rte_eth_rx_burst(s, c.a1, c.a3, c.a2)
      [] c.fn = "_rte_eth_tx_burst" -> rte_eth_tx_burst(s, c.a1, c.a3, c.tab, c.a2)
      [] c.fn = "_rte_pktmbuf_priv_size" -> rte_pktmbuf_priv_size(s, c.a1)
      [] c.fn = "_rte_pktmbuf_data_room_size" -> rte_pktmbuf_data_room_size(s, c.a1)

\* C1: once a thread has called _rte_set_mock_lcore(V), every _rte_lcore_id()
\* call on that thread returns V, whatever calls were made in between on any
\* thread, until the thread calls _rte_set_mock_lcore again.
C1_ReadAfterWrite ==
    (last.fn = "_rte_lcore_id" /\ mock[last.thread] # NoMock)
        => last.ret = mock[last.thread]

\* _rte_lcore_id() on A returns A's value after B set another one and after
\* other shim calls and a recorded error in between
C1_Witness ==
    /\ last.fn = "_rte_lcore_id" /\ last.thread = "A"
    /\ mock["A"] = U32(1, 1) /\ last.ret = U32(1, 1)
    /\ mock["B"] = LCORE_ID_ANY
    /\ owner[1] = "B" /\ recorded["A"] = 12

\* C2: a _rte_set_mock_lcore call on one thread leaves the value
\* _rte_lcore_id() returns on every other thread as it was, and sets the
\* caller's own.
C2_ThreadLocal ==
    [][\A a \in Threads :
          (last' # last /\ last'.fn = "_rte_set_mock_lcore" /\ last'.thread = a)
              => /\ \A b \in Threads \ {a} : ObservedLcore(b)' = ObservedLcore(b)
                 /\ ObservedLcore(a)' = last'.tab]_vars

\* both threads have set a value of their own and each still has its own
C2_Witness ==
    /\ last.fn = "_rte_set_mock_lcore" /\ last.thread = "A"
    /\ mock["A"] = U32(1, 1) /\ mock["B"] = LCORE_ID_ANY
    /\ ObservedLcore("A") = U32(1, 1) /\ ObservedLcore("B") = LCORE_ID_ANY
    /\ per_lcore_lcore_id["A"] # per_lcore_lcore_id["B"]

\* C3: the value of every exported constant equals the value of the native
\* macro it is initialised from.
C3_ConstEqualsMacro ==
    last.fn \in ConstNames
        => last.ret = MacroValue((CHOOSE r \in ExportedConsts : r.name = last.fn).macro)

\* C4: a burst forwarder returns at most nb_pkts, and 0 when nb_pkts is 0.
C4_BurstAtMostRequested ==
    last.fn \in {"_rte_eth_rx_burst", "_rte_eth_tx_burst"}
        => /\ 0 <= last.ret[1] /\ last.ret[1] <= last.a2
           /\ last.a2 \in 0..(UINT16_MOD - 1)
           /\ Len(last.out) <= last.ret[1]

\* a TX burst that transferred fewer packets than requested
C4_Witness ==
    /\ last.fn = "_rte_eth_tx_burst"
    /\ last.a2 = 2 /\ last.ret[1] = 1

\* C5: _rte_mempool_put_bulk(mp, obj_table, n) reads the entries 1..n of
\* obj_table and no other, returns exactly those objects to the pool, and
\* with n = 0 reads nothing and changes nothing.
C5_PutBulkFirstN ==
    [][(last' # last /\ last'.fn = "_rte_mempool_put_bulk")
          => LET n == last'.a2
                 tab == last'.tab
             IN  /\ last'.reads = 1..n
                 /\ owner' = [m \in Mbufs |->
                                IF \E i \in 1..n : tab[i] = m THEN "pool" ELSE owner[m]]
                 /\ UNCHANGED <<per_lcore_lcore_id, per_lcore_rte_errno, data_off,
                                data_len, rx_ring>>
                 /\ (n = 0 => last'.reads = {} /\ UNCHANGED nativeVars)]_vars

\* a table of two with n = 1: the second entry was not read and is still held
C5_Witness ==
    /\ last.fn = "_rte_mempool_put_bulk"
    /\ Len(last.tab) = 2 /\ last.a2 = 1 /\ last.reads = {1}
    /\ owner[last.tab[1]] = "pool" /\ owner[last.tab[2]] = last.thread

\* C6: a forwarder's return value, output array and resulting native state
\* are an outcome of the wrapped native function called once with the same
\* arguments in the same native state.
C6_ForwarderEquivalent ==
    [][(last' # last /\ last'.fn \in Forwarders)
          => [ret |-> last'.ret, out |-> last'.out,
              st |-> [self |-> last'.thread, lcore |-> per_lcore_lcore_id',
                      errno |-> per_lcore_rte_errno', owner |-> owner',
                      off |-> data_off', len |-> data_len', rxq |-> rx_ring',
                      calls |-> last'.ncalls, reads |-> last'.reads]]
             \in Wrapped(NativeState(last'.thread), last')]_vars

\* a data-room query answered with the pool's data room, not its private size
C6_Witness ==
    /\ last.fn = "_rte_pktmbuf_data_room_size"
    /\ last.ret = <<BufLen>>
    /\ \E m \in Mbufs : owner[m] = "tx"

\* C7: _rte_pktmbuf_prepend(m, len) returns null and changes nothing when len
\* exceeds the headroom of m; otherwise it returns the non-null start of the
\* data, moved down by len, and the data is len bytes longer.
C7_PrependByHeadroom ==
    [][(last' # last /\ last'.fn = "_rte_pktmbuf_prepend")
          => LET m == last'.a1
                 len == last'.a2
             IN  IF len > data_off[m]
                 THEN last'.ret = <<NULL>> /\ UNCHANGED nativeVars
                 ELSE /\ last'.ret = <<m, data_off[m] - len>>
                      /\ last'.ret # <<NULL>>
                      /\ data_off' = [data_off EXCEPT ![m] = @ - len]
                      /\ data_len' = [data_len EXCEPT ![m] = @ + len]
                      /\ UNCHANGED <<per_lcore_lcore_id, per_lcore_rte_errno, owner,
                                     rx_ring>>]_vars

\* the headroom was used up one byte at a time; one byte more is refused
C7_Witness ==
    /\ last.fn = "_rte_pktmbuf_prepend"
    /\ last.a2 = 1 /\ last.ret = <<NULL>>
    /\ data_off[last.a1] = 0 /\ data_len[last.a1] = Headroom

\* C8: _rte_errno() returns the last error recorded on the calling thread and
\* changes no state.
C8_ErrnoReadOnly ==
    [][(last' # last /\ last'.fn = "_rte_errno")
          => /\ last'.ret = <<recorded[last'.thread]>>
             /\ UNCHANGED nativeVars
             /\ UNCHANGED <<mock, recorded>>]_vars

\* A reads 0 although an error was recorded on B
C8_Witness ==
    /\ last.fn = "_rte_errno" /\ last.thread = "A"
    /\ last.ret = <<0>>
    /\ recorded["B"] = 12 /\ per_lcore_rte_errno["B"] = 12

\* the forwarders whose body is a call of a native function
NativeForwarders == Forwarders \ {"_rte_errno"}

\* C9 as stated: every forwarder call makes exactly one native call.
C9_EveryForwarderOneCall ==
    \A t \in Threads :
        (pc[t] = "return" /\ pending[t].fn \in Forwarders) => pending[t].ncalls = 1

\* C9: a forwarder that wraps a native function has made exactly one call of
\* it when it returns, also when a burst came back short or an allocation or
\* prepend returned null; _rte_errno and _rte_set_mock_lcore have made none;
\* and every shim call that was entered returns, given that the native call
\* does.
C9_OneNativeCallThenReturn ==
    /\ [](\A t \in Threads :
            pc[t] = "return"
                => pending[t].ncalls =
                        (IF pending[t].fn \in NativeForwarders THEN 1 ELSE 0))
    /\ \A t \in Threads : (pc[t] # "idle") ~> (pc[t] = "idle")

\* an RX burst about to return 0 of 2 requested while a packet is waiting,
\* after its one native call, with the other thread inside a native call
C9_Witness ==
    /\ pc["A"] = "return"
    /\ pending["A"].fn = "_rte_eth_rx_burst"
    /\ pending["A"].a2 = 2 /\ pending["A"].ret = <<0>>
    /\ pending["A"].ncalls = 1
    /\ rx_ring # <<>>
    /\ pc["B"] = "native"

\* C10: _rte_set_mock_lcore writes the caller's slot of the per-lcore id that
\* _rte_lcore_id reads and nothing else; no other shim function changes the
\* per-lcore id or the per-lcore error value of any thread.
C10_OnlySetterWritesTls ==
    [][(last' # last /\ (last'.fn \in Forwarders \/ last'.fn = "_rte_set_mock_lcore"))
          => IF last'.fn = "_rte_set_mock_lcore"
             THEN /\ per_lcore_lcore_id' =
                        [per_lcore_lcore_id EXCEPT ![last'.thread] = last'.tab]
                  /\ UNCHANGED <<per_lcore_rte_errno, owner, data_off, data_len, rx_ring>>
             ELSE UNCHANGED <<per_lcore_lcore_id, per_lcore_rte_errno>>]_vars

\* A, registered as lcore 0, has been given another id and later calls did not
\* restore 0
C10_Witness ==
    /\ per_lcore_lcore_id["A"] # U32(0, 0)
    /\ mock["A"] = per_lcore_lcore_id["A"]
    /\ last.thread = "A" /\ last.fn = "_rte_pktmbuf_free"
    /\ recorded["A"] = 12
====
